---- MODULE Spec2Model ----
(***************************************************************************)
(* Model of BatcavePlanner/shared/schema.ts: the tasks table declaration,  *)
(* the validation schemas derived from it by omit / partial / extend, and  *)
(* the response transform that turns numeric text into numbers.            *)
(*                                                                         *)
(* A JavaScript value is a tagged record; a number is a decimal m / 10^d   *)
(* in lowest form (the digits Number.prototype.toString prints), so that   *)
(* the decimal-place arithmetic of multipleOf is modelled as it is done.   *)
(* Text is a sequence of one-character strings.                            *)
(***************************************************************************)
EXTENDS Integers, Sequences, FiniteSets, TLC

VARIABLES payload, schema, result, prev, pc

vars == <<payload, schema, result, prev, pc>>

(***************************************************************************)
(* Bounds of the model.                                                    *)
(***************************************************************************)
\* fields in which a payload may differ from one of the request templates
MaxEdits == 2
\* half-width, in hundredths of an hour, of the window of numbers tried
\* around each limit of the hour checks
Window == 110
\* longest numeric text of a persisted row
MaxLen == 3

(***************************************************************************)
(* JavaScript values.                                                      *)
(***************************************************************************)
Str(s) == [t |-> "string", m |-> 0, d |-> 0, s |-> s]
Num(m, d) == [t |-> "number", m |-> m, d |-> d, s |-> <<>>]
NaN == [t |-> "nan", m |-> 0, d |-> 0, s |-> <<>>]
Null == [t |-> "null", m |-> 0, d |-> 0, s |-> <<>>]
Bool(b) == [t |-> "boolean", m |-> IF b THEN 1 ELSE 0, d |-> 0, s |-> <<>>]
Date(k) == [t |-> "date", m |-> k, d |-> 0, s |-> <<>>]

RECURSIVE Pow10(_)
Pow10(n) == IF n = 0 THEN 1 ELSE 10 * Pow10(n - 1)

Max(a, b) == IF a >= b THEN a ELSE b
Abs(a) == IF a < 0 THEN -a ELSE a

\* the number m / 10^d in lowest form
RECURSIVE Canon(_, _)
Canon(m, d) ==
    IF d > 0 /\ m % 10 = 0 THEN Canon(m \div 10, d - 1) ELSE Num(m, d)

\* the number h / 100
Hundredths(h) == IF h < 0 THEN LET p == Canon(-h, 2) IN Num(-p.m, p.d)
                 ELSE Canon(h, 2)

NumLt(a, b) == a.m * Pow10(b.d) < b.m * Pow10(a.d)

(***************************************************************************)
(* Objects: functions from a set of field names to values.                 *)
(***************************************************************************)
EmptyObj == [f \in {} |-> Null]

Put(obj, f, v) == [k \in (DOMAIN obj) \cup {f} |-> IF k = f THEN v ELSE obj[k]]

Drop(obj, fs) == [k \in (DOMAIN obj) \ fs |-> obj[k]]

(***************************************************************************)
(* parseFloat (schema.ts:59, :81): the longest prefix of the text that is  *)
(* a decimal literal -- an optional sign, digits, an optional point and    *)
(* digits -- read as a number; NaN when no prefix is one.  What follows    *)
(* the prefix is ignored.  (The texts of the model hold no white space,    *)
(* exponent or "Infinity".)                                                *)
(***************************************************************************)
DigitChars == <<"0", "1", "2", "3", "4", "5", "6", "7", "8", "9">>

IsDigit(c) == \E i \in 1..10 : DigitChars[i] = c

DigitVal(c) == (CHOOSE i \in 1..10 : DigitChars[i] = c) - 1

\* the first index at or after i that holds no digit
RECURSIVE DigitRun(_, _)
DigitRun(s, i) ==
    IF i <= Len(s) /\ IsDigit(s[i]) THEN DigitRun(s, i + 1) ELSE i

RECURSIVE DigitsVal(_)
DigitsVal(s) ==
    IF s = <<>> THEN 0
    ELSE 10 * DigitsVal(SubSeq(s, 1, Len(s) - 1)) + DigitVal(s[Len(s)])

\* a faulty variant of ParseFloat: parseInt, which stops at the decimal point
ParseInt(s) ==
    LET signed == Len(s) >= 1 /\ s[1] \in {"-", "+"}
        start  == IF signed THEN 2 ELSE 1
        iEnd   == DigitRun(s, start)
        int    == SubSeq(s, start, iEnd - 1)
    IN  IF int = <<>> THEN NaN
        ELSE Num((IF signed /\ s[1] = "-" THEN -1 ELSE 1) * DigitsVal(int), 0)

ParseFloat(s) ==
    LET signed == Len(s) >= 1 /\ s[1] \in {"-", "+"}
        start  == IF signed THEN 2 ELSE 1
        iEnd   == DigitRun(s, start)
        hasDot == iEnd <= Len(s) /\ s[iEnd] = "."
        fEnd   == IF hasDot THEN DigitRun(s, iEnd + 1) ELSE iEnd
        int    == SubSeq(s, start, iEnd - 1)
        frac   == IF hasDot THEN SubSeq(s, iEnd + 1, fEnd - 1) ELSE <<>>
        mag    == Canon(DigitsVal(int \o frac), Len(frac))
    IN  IF int = <<>> /\ frac = <<>> THEN NaN
        ELSE IF signed /\ s[1] = "-" THEN Num(-mag.m, mag.d) ELSE mag

(***************************************************************************)
(* zod types.  kind is the primitive the type accepts; optional accepts an *)
(* absent key, nullable accepts null; a bounded number carries the checks  *)
(* min, max and multipleOf; transform is applied to an accepted value.     *)
(***************************************************************************)
ZType(kind) ==
    [kind |-> kind, optional |-> FALSE, nullable |-> FALSE, bounded |-> FALSE,
     min |-> Num(0, 0), max |-> Num(0, 0), step |-> Num(1, 0),
     transform |-> "none"]

ZString == ZType("string")

ZNumber(min, max, step) ==
    [ZType("number") EXCEPT !.bounded = TRUE, !.min = min, !.max = max,
                            !.step = step]

Optional(z) == [z EXCEPT !.optional = TRUE]

Nullable(z) == [z EXCEPT !.nullable = TRUE]

Transform(z, fn) == [z EXCEPT !.transform = fn]

(***************************************************************************)
(* multipleOf: zod's remainder of val by step, taken on the integers that  *)
(* both become when scaled by the larger count of decimal places.          *)
(***************************************************************************)
FloatSafeRemainder(val, step) ==
    LET decCount == Max(val.d, step.d)
        valInt   == val.m * Pow10(decCount - val.d)
        stepInt  == step.m * Pow10(decCount - step.d)
        r        == Abs(valInt) % stepInt
    IN  IF val.m < 0 THEN -r ELSE r

(***************************************************************************)
(* Parsing one key of an object: the issue codes raised for it, and the    *)
(* value it contributes to the output (none when has is FALSE).            *)
(***************************************************************************)
Field(issues, has, value) == [issues |-> issues, has |-> has, value |-> value]

ApplyTransform(fn, v) ==
    CASE fn = "parseFloat" -> IF v.t = "string" THEN ParseFloat(v.s) ELSE v
      [] fn = "parseFloatOrNull" -> IF v.s # <<>> THEN ParseFloat(v.s) ELSE Null
      [] OTHER -> v

NumberChecks(z, v) ==
    {c \in {"too_small", "too_big", "not_multiple_of"} :
        \/ c = "too_small" /\ NumLt(v, z.min)
        \/ c = "too_big" /\ NumLt(z.max, v)
        \/ c = "not_multiple_of" /\ FloatSafeRemainder(v, z.step) # 0}

ParseField(z, has, v) ==
    IF ~has
    THEN IF z.optional THEN Field({}, FALSE, Null)
         ELSE Field({"invalid_type"}, FALSE, Null)
    ELSE IF v.t = "null"
    THEN IF z.nullable THEN Field({}, TRUE, Null)
         ELSE Field({"invalid_type"}, FALSE, Null)
    ELSE IF z.kind # "any" /\ v.t # z.kind
    THEN Field({"invalid_type"}, FALSE, Null)
    ELSE IF z.bounded
    THEN Field(NumberChecks(z, v), TRUE, v)
    ELSE Field({}, TRUE, ApplyTransform(z.transform, v))

(***************************************************************************)
(* Parsing an object against a shape: every key of the shape is parsed, in *)
(* the order of declaration, and the issues of all of them are collected;  *)
(* keys of the input that the shape does not hold are stripped.            *)
(***************************************************************************)
FieldOrder ==
    <<"id", "userId", "title", "description", "domain", "priority",
      "estimatedHours", "actualHours", "xpReward", "euReward", "isCompleted",
      "completedAt", "dueDate", "createdAt", "updatedAt">>

Fields == {FieldOrder[i] : i \in 1..Len(FieldOrder)}

ParseKey(shape, input, k) ==
    ParseField(shape[k], k \in DOMAIN input,
               IF k \in DOMAIN input THEN input[k] ELSE Null)

Acc(issues, data) == [issues |-> issues, data |-> data]

Merge(acc, k, r) ==
    Acc(acc.issues \cup {[path |-> k, code |-> c] : c \in r.issues},
        IF r.has THEN Put(acc.data, k, r.value) ELSE acc.data)

RECURSIVE ParseKeysFailFast(_, _, _, _)
ParseKeysFailFast(shape, input, i, acc) ==
    IF i > Len(FieldOrder) \/ acc.issues # {} THEN acc
    ELSE IF FieldOrder[i] \notin DOMAIN shape
    THEN ParseKeysFailFast(shape, input, i + 1, acc)
    ELSE ParseKeysFailFast(shape, input, i + 1,
             Merge(acc, FieldOrder[i], ParseKey(shape, input, FieldOrder[i])))

RECURSIVE ParseKeysFrom(_, _, _, _)
ParseKeysFrom(shape, input, i, acc) ==
    IF i > Len(FieldOrder) THEN acc
    ELSE IF FieldOrder[i] \notin DOMAIN shape
    THEN ParseKeysFrom(shape, input, i + 1, acc)
    ELSE ParseKeysFrom(shape, input, i + 1,
             Merge(acc, FieldOrder[i], ParseKey(shape, input, FieldOrder[i])))

\* a faulty variant of ParseKeys: parsing aborts at the first key with an issue
ParseKeysFirstIssue(shape, input) ==
    ParseKeysFailFast(shape, input, 1, Acc({}, EmptyObj))

ParseKeys(shape, input) == ParseKeysFrom(shape, input, 1, Acc({}, EmptyObj))

Result(ok, data, issues) == [ok |-> ok, data |-> data, issues |-> issues]

\* a faulty variant of ParseObject: unknown keys pass through to the output
ParseObjectPassthrough(shape, input) ==
    LET acc == ParseKeys(shape, input)
        out == [k \in (DOMAIN acc.data) \cup ((DOMAIN input) \ (DOMAIN shape)) |->
                   IF k \in DOMAIN acc.data THEN acc.data[k] ELSE input[k]]
    IN  IF acc.issues = {} THEN Result(TRUE, out, {})
        ELSE Result(FALSE, EmptyObj, acc.issues)

ParseObject(shape, input) ==
    LET acc == ParseKeys(shape, input)
    IN  IF acc.issues = {} THEN Result(TRUE, acc.data, {})
        ELSE Result(FALSE, EmptyObj, acc.issues)

(***************************************************************************)
(* Schema algebra.                                                         *)
(***************************************************************************)
Omit(shape, keys) == [k \in (DOMAIN shape) \ keys |-> shape[k]]

Extend(shape, ext) ==
    [k \in (DOMAIN shape) \cup (DOMAIN ext) |->
        IF k \in DOMAIN ext THEN ext[k] ELSE shape[k]]

\* a faulty variant of Partial: the keys stay as they were
PartialIdentity(shape) == shape

Partial(shape) == [k \in DOMAIN shape |-> Optional(shape[k])]

(***************************************************************************)
(* The tasks table (schema.ts:20-36) and the insert schema drizzle-zod     *)
(* derives from it: a column that may be null is nullable and optional, a  *)
(* column with a default is optional, any other column is required.        *)
(* numeric columns are text.                                               *)
(***************************************************************************)
Column(type, notNull, hasDefault) ==
    [type |-> type, notNull |-> notNull, hasDefault |-> hasDefault]

tasks ==
    [id             |-> Column("varchar", TRUE, TRUE),
     userId         |-> Column("varchar", TRUE, FALSE),
     title          |-> Column("text", TRUE, FALSE),
     description    |-> Column("text", FALSE, FALSE),
     domain         |-> Column("text", TRUE, FALSE),
     priority       |-> Column("text", TRUE, TRUE),
     estimatedHours |-> Column("numeric", TRUE, TRUE),
     actualHours    |-> Column("numeric", FALSE, FALSE),
     xpReward       |-> Column("integer", TRUE, TRUE),
     euReward       |-> Column("integer", TRUE, TRUE),
     isCompleted    |-> Column("boolean", TRUE, TRUE),
     completedAt    |-> Column("timestamp", FALSE, FALSE),
     dueDate        |-> Column("timestamp", FALSE, FALSE),
     createdAt      |-> Column("timestamp", TRUE, TRUE),
     updatedAt      |-> Column("timestamp", TRUE, TRUE)]

ColumnKind(type) ==
    CASE type \in {"varchar", "text", "numeric"} -> "string"
      [] type = "integer" -> "number"
      [] type = "boolean" -> "boolean"
      [] type = "timestamp" -> "date"

\* a faulty variant of createInsertSchema: every column is optional
createInsertSchemaAllOptional(table) ==
    [k \in DOMAIN table |-> Optional(ZType(ColumnKind(table[k].type)))]

createInsertSchema(table) ==
    [k \in DOMAIN table |->
        LET z == ZType(ColumnKind(table[k].type))
        IN  IF ~table[k].notNull THEN Optional(Nullable(z))
            ELSE IF table[k].hasDefault THEN Optional(z)
            ELSE z]

(***************************************************************************)
(* The schemas of schema.ts:38-82.                                         *)
(***************************************************************************)
\* a faulty variant of insertTaskSchema: xpReward is not omitted
insertTaskSchemaKeepsReward ==
    Omit(createInsertSchema(tasks),
         {"id", "euReward", "isCompleted", "completedAt", "createdAt",
          "updatedAt"})

insertTaskSchema ==
    Omit(createInsertSchema(tasks),
         {"id", "xpReward", "euReward", "isCompleted", "completedAt",
          "createdAt", "updatedAt"})

updateTaskSchema ==
    Partial(Omit(createInsertSchema(tasks),
                 {"id", "userId", "xpReward", "euReward", "createdAt",
                  "updatedAt"}))

\* a faulty variant of numericFieldTransform: any input is taken, not only text
numericFieldTransformAny == Transform(ZType("any"), "parseFloat")

numericFieldTransform == Transform(ZString, "parseFloat")

\* a faulty variant of clientTaskSchema: estimatedHours has no lower limit
clientTaskSchemaNoMin ==
    Omit(Extend(insertTaskSchema,
                [estimatedHours |-> ZNumber(Num(-9999, 0), Num(24, 0), Num(5, 1)),
                 dueDate |-> Optional(ZString)]),
         {"userId"})

clientTaskSchema ==
    Omit(Extend(insertTaskSchema,
                [estimatedHours |-> ZNumber(Num(5, 1), Num(24, 0), Num(5, 1)),
                 dueDate |-> Optional(ZString)]),
         {"userId"})

\* a faulty variant of clientUpdateTaskSchema: actualHours steps by 0.5
clientUpdateTaskSchemaHalfStep ==
    Omit(Extend(updateTaskSchema,
                [actualHours |->
                     Optional(ZNumber(Num(1, 1), Num(100, 0), Num(5, 1))),
                 estimatedHours |->
                     Optional(ZNumber(Num(5, 1), Num(24, 0), Num(5, 1))),
                 dueDate |-> Optional(ZString)]),
         {"completedAt"})

clientUpdateTaskSchema ==
    Omit(Extend(updateTaskSchema,
                [actualHours |->
                     Optional(ZNumber(Num(1, 1), Num(100, 0), Num(1, 1))),
                 estimatedHours |->
                     Optional(ZNumber(Num(5, 1), Num(24, 0), Num(5, 1))),
                 dueDate |-> Optional(ZString)]),
         {"completedAt"})

taskResponseSchema ==
    Omit(Extend(createInsertSchema(tasks),
                [estimatedHours |-> numericFieldTransform,
                 actualHours |->
                     Nullable(Transform(ZString, "parseFloatOrNull"))]),
         {})

CreateSchemas == {"insertTaskSchema", "clientTaskSchema"}
UpdateSchemas == {"updateTaskSchema", "clientUpdateTaskSchema"}
ClientSchemas == {"clientTaskSchema", "clientUpdateTaskSchema"}
WritableSchemas == CreateSchemas \cup UpdateSchemas
Schemas == WritableSchemas \cup {"taskResponseSchema"}

Shape(s) ==
    CASE s = "insertTaskSchema" -> insertTaskSchema
      [] s = "updateTaskSchema" -> updateTaskSchema
      [] s = "clientTaskSchema" -> clientTaskSchema
      [] s = "clientUpdateTaskSchema" -> clientUpdateTaskSchema
      [] s = "taskResponseSchema" -> taskResponseSchema

(***************************************************************************)
(* The inputs of the model.                                                *)
(***************************************************************************)
Text(a) == Str(<<a>>)

\* the values a request supplies for a field: well-typed ones and others
Cand(f) ==
    CASE f \in {"id", "userId", "title", "domain", "priority"} ->
             {Text("a"), Num(7, 0)}
      [] f = "description" -> {Text("a"), Num(7, 0), Null}
      [] f = "estimatedHours" -> {Str(<<"1", ".", "0">>), Num(15, 1), Num(4, 1)}
      [] f = "actualHours" -> {Str(<<"2", ".", "5">>), Num(1, 1), Null}
      [] f \in {"xpReward", "euReward"} -> {Num(50, 0), Text("a")}
      [] f = "isCompleted" -> {Bool(TRUE), Text("a")}
      [] f \in {"completedAt", "createdAt", "updatedAt"} -> {Date(1), Text("a")}
      [] f = "dueDate" -> {Date(1), Text("d"), Null}

InsertTemplate ==
    [userId |-> Text("u"), title |-> Text("t"), domain |-> Text("fitness")]

ClientTemplate ==
    [title |-> Text("t"), domain |-> Text("fitness"),
     estimatedHours |-> Num(15, 1)]

Templates == {EmptyObj, InsertTemplate, ClientTemplate}

Distance(p, q) ==
    Cardinality({f \in Fields :
        \/ (f \in DOMAIN p) # (f \in DOMAIN q)
        \/ f \in DOMAIN p /\ f \in DOMAIN q /\ p[f] # q[f]})

Within(p) == \E q \in Templates : Distance(p, q) <= MaxEdits

\* a number of hundredths of an hour within Window of a limit of the checks
ToHundredths(n) == n.m * Pow10(2 - n.d)

Limits ==
    {ToHundredths(clientUpdateTaskSchema[f].min) :
         f \in {"estimatedHours", "actualHours"}}
    \cup {ToHundredths(clientUpdateTaskSchema[f].max) :
         f \in {"estimatedHours", "actualHours"}}

HourCands == UNION {(c - Window)..(c + Window) : c \in Limits}

\* numeric text as the storage layer may hold it, well formed or not
Alphabet == {"0", "2", "5", ".", "-", "x"}

TextsOf(n) == UNION {[1..k -> Alphabet] : k \in 0..n}

RefTexts == {<<>>, <<"2", ".", "5">>, <<"x">>}

\* a persisted row
BaseRow ==
    [id |-> Text("i"), userId |-> Text("u"), title |-> Text("t"),
     description |-> Null, domain |-> Text("fitness"),
     priority |-> Text("medium"), estimatedHours |-> Str(<<"2", ".", "5">>),
     actualHours |-> Null, xpReward |-> Num(0, 0), euReward |-> Num(0, 0),
     isCompleted |-> Bool(FALSE), completedAt |-> Null, dueDate |-> Null,
     createdAt |-> Date(1), updatedAt |-> Date(1)]

(***************************************************************************)
(* The state machine: a payload is assembled, a schema parses it, and the  *)
(* response schema may be applied again to what it returned.               *)
(***************************************************************************)
NoResult == Result(FALSE, EmptyObj, {})

Init ==
    /\ payload = EmptyObj
    /\ schema = "none"
    /\ result = NoResult
    /\ prev = NoResult
    /\ pc = "build"

Supply(f, v) ==
    /\ pc = "build"
    /\ Within(Put(payload, f, v))
    /\ payload' = Put(payload, f, v)
    /\ UNCHANGED <<schema, result, prev, pc>>

Remove(f) ==
    /\ pc = "build"
    /\ f \in DOMAIN payload
    /\ Within(Drop(payload, {f}))
    /\ payload' = Drop(payload, {f})
    /\ UNCHANGED <<schema, result, prev, pc>>

UseTemplate(q) ==
    /\ pc = "build"
    /\ payload = EmptyObj
    /\ payload' = q
    /\ UNCHANGED <<schema, result, prev, pc>>

FillHours(q, f, h) ==
    /\ pc = "build"
    /\ payload = EmptyObj
    /\ payload' = Put(q, f, Hundredths(h))
    /\ UNCHANGED <<schema, result, prev, pc>>

LoadRow(e, a, hasActual) ==
    /\ pc = "build"
    /\ payload = EmptyObj
    /\ LET row == [BaseRow EXCEPT !.estimatedHours = Str(e), !.actualHours = a]
       IN  payload' = IF hasActual THEN row ELSE Drop(row, {"actualHours"})
    /\ UNCHANGED <<schema, result, prev, pc>>

Validate(s) ==
    /\ pc = "build"
    /\ schema' = s
    /\ result' = ParseObject(Shape(s), payload)
    /\ pc' = "done"
    /\ UNCHANGED <<payload, prev>>

Reapply ==
    /\ pc = "done"
    /\ schema = "taskResponseSchema"
    /\ result.ok
    /\ prev' = result
    /\ payload' = result.data
    /\ result' = ParseObject(taskResponseSchema, result.data)
    /\ pc' = "reapplied"
    /\ UNCHANGED schema

Reset ==
    /\ pc \in {"done", "reapplied"}
    /\ payload' = EmptyObj
    /\ schema' = "none"
    /\ result' = NoResult
    /\ prev' = NoResult
    /\ pc' = "build"

\* requests with arbitrary fields against every schema
Next ==
    \/ \E q \in Templates : UseTemplate(q)
    \/ \E f \in Fields : \E v \in Cand(f) : Supply(f, v)
    \/ \E f \in Fields : Remove(f)
    \/ \E s \in Schemas : Validate(s)
    \/ Reset

Spec == Init /\ [][Next]_vars

\* client requests whose hour fields range over numbers near the limits
NextHours ==
    \/ \E q \in {EmptyObj, ClientTemplate} :
         \E f \in {"estimatedHours", "actualHours"} :
           \E h \in HourCands : FillHours(q, f, h)
    \/ \E s \in ClientSchemas : Validate(s)
    \/ Reset

SpecHours == Init /\ [][NextHours]_vars

\* persisted rows through the response schema, once and again
NextResponse ==
    \/ \E e \in TextsOf(MaxLen) : \E a \in {Null} \cup {Str(x) : x \in RefTexts} :
         \E hasActual \in BOOLEAN : LoadRow(e, a, hasActual)
    \/ \E e \in RefTexts : \E a \in {Str(x) : x \in TextsOf(MaxLen)} :
         LoadRow(e, a, TRUE)
    \/ Validate("taskResponseSchema")
    \/ Reapply
    \/ Reset

SpecResponse == Init /\ [][NextResponse]_vars

(***************************************************************************)
(* Notions the properties are stated with.                                 *)
(***************************************************************************)
Validated(S) == pc = "done" /\ schema \in S

Supplied(f) == f \in DOMAIN payload

Returned(f) == f \in DOMAIN result.data

IssuePaths == {i.path : i \in result.issues}

\* the keys of the schema whose own constraint the payload violates
Violated(s) ==
    {k \in DOMAIN Shape(s) : ParseKey(Shape(s), payload, k).issues # {}}

\* the supplied keys of the schema are returned with the values supplied
PassedThrough(s) ==
    /\ DOMAIN result.data = (DOMAIN payload) \cap (DOMAIN Shape(s))
    /\ \A k \in DOMAIN result.data : result.data[k] = payload[k]

RewardFields == {"xpReward", "euReward"}
CompletionFields == {"isCompleted", "completedAt"}
ServerComputed ==
    RewardFields \cup CompletionFields \cup {"id", "createdAt", "updatedAt"}

OtherwiseValid(s, f) ==
    \A k \in DOMAIN Shape(s) :
        ParseKey(Shape(s), Drop(payload, {f}), k).issues = {}

\* C2: a create payload that holds a server-computed field and is otherwise
\* valid is accepted by the create schemas, the field is not returned, and
\* every supplied field of the schema is returned unchanged.
C2_ServerComputedStripped ==
    \A f \in ServerComputed :
        Validated(CreateSchemas) /\ Supplied(f) /\ OtherwiseValid(schema, f) =>
            result.ok /\ ~Returned(f) /\ PassedThrough(schema)

C2_Witness ==
    /\ Validated({"clientTaskSchema"}) /\ result.ok
    /\ Supplied("xpReward") /\ ~Returned("xpReward")
    /\ Returned("title") /\ Returned("estimatedHours")

(***************************************************************************)
(* C3.                                                                     *)
(***************************************************************************)
\* C3: an update payload validates when each supplied field of the schema
\* meets its own constraint, whichever fields are absent, and then exactly
\* the supplied fields of the schema are returned; userId is never returned.
C3_PartialUpdate ==
    Validated(UpdateSchemas) =>
        /\ (\A k \in (DOMAIN payload) \cap (DOMAIN Shape(schema)) :
               ParseField(Shape(schema)[k], TRUE, payload[k]).issues = {})
           => result.ok /\ PassedThrough(schema)
        /\ DOMAIN Shape(schema) =
             Fields \ ({"id", "userId", "createdAt", "updatedAt"}
                       \cup RewardFields
                       \cup IF schema = "clientUpdateTaskSchema"
                            THEN {"completedAt"} ELSE {})
        /\ ~Returned("userId")

C3_Witness ==
    /\ Validated({"clientUpdateTaskSchema"}) /\ result.ok
    /\ DOMAIN payload = {"title", "userId"}
    /\ DOMAIN result.data = {"title"}

(***************************************************************************)
(* C6.                                                                     *)
(***************************************************************************)
\* C6: a create payload without title or without domain is rejected by both
\* create schemas, whatever else it holds; the absence of description,
\* priority or dueDate raises no issue.
C6_RequiredFields ==
    Validated(CreateSchemas) =>
        /\ \A f \in {"title", "domain"} :
             ~Supplied(f) => ~result.ok /\ f \in IssuePaths
        /\ \A f \in {"description", "priority", "dueDate"} :
             ~Supplied(f) => f \notin IssuePaths

C6_Witness ==
    /\ Validated({"insertTaskSchema"}) /\ ~result.ok
    /\ DOMAIN payload = {"userId", "domain"}
    /\ IssuePaths = {"title"}

IsNumber(f) == Supplied(f) /\ payload[f].t = "number"

HundredthsOf(f) == ToHundredths(payload[f])

Accepted(f) == f \notin IssuePaths

\* C4: the client schemas accept a numeric estimatedHours exactly when it
\* lies in [0.5, 24] and is a multiple of 0.5.
C4_EstimatedHoursRange ==
    Validated(ClientSchemas) /\ IsNumber("estimatedHours") =>
        (Accepted("estimatedHours") <=>
            /\ 50 <= HundredthsOf("estimatedHours")
            /\ HundredthsOf("estimatedHours") <= 2400
            /\ HundredthsOf("estimatedHours") % 50 = 0)

C4_Witness ==
    /\ Validated({"clientTaskSchema"}) /\ result.ok
    /\ IsNumber("estimatedHours")
    /\ HundredthsOf("estimatedHours") = 2400
    /\ result.data["estimatedHours"] = Num(24, 0)

\* C5: clientUpdateTaskSchema accepts a numeric actualHours exactly when it
\* lies in [0.1, 100] and is a multiple of 0.1; an absent actualHours raises
\* no issue.
C5_ActualHoursRange ==
    Validated({"clientUpdateTaskSchema"}) =>
        /\ IsNumber("actualHours") =>
             (Accepted("actualHours") <=>
                 /\ 10 <= HundredthsOf("actualHours")
                 /\ HundredthsOf("actualHours") <= 10000
                 /\ HundredthsOf("actualHours") % 10 = 0)
        /\ ~Supplied("actualHours") => Accepted("actualHours")

C5_Witness ==
    /\ Validated({"clientUpdateTaskSchema"}) /\ result.ok
    /\ IsNumber("actualHours")
    /\ HundredthsOf("actualHours") = 10000
    /\ result.data["actualHours"] = Num(100, 0)

(***************************************************************************)
(* C7, C8, C9: the response transform.                                     *)
(***************************************************************************)
AllDigits(s) == \A i \in 1..Len(s) : IsDigit(s[i])

\* digits, a point, digits; no sign and no needless leading zero
WellFormedDecimal(s) ==
    \E p \in 2..(Len(s) - 1) :
        /\ s[p] = "."
        /\ AllDigits(SubSeq(s, 1, p - 1))
        /\ AllDigits(SubSeq(s, p + 1, Len(s)))
        /\ (p > 2 => s[1] # "0")

\* the same with one digit after the point, the form of a numeric(4, 1)
WellFormedOneDecimal(s) ==
    WellFormedDecimal(s) /\ s[Len(s) - 1] = "."

\* an optional sign, then digits with an optional fraction, or a fraction
IsDecimalText(s) ==
    LET body == IF Len(s) >= 1 /\ s[1] \in {"-", "+"}
                THEN SubSeq(s, 2, Len(s)) ELSE s
    IN  \/ body # <<>> /\ AllDigits(body)
        \/ \E p \in 1..Len(body) :
             /\ body[p] = "."
             /\ AllDigits(SubSeq(body, 1, p - 1))
             /\ AllDigits(SubSeq(body, p + 1, Len(body)))
             /\ Len(body) > 1

RECURSIVE ToDigits(_)
ToDigits(n) ==
    IF n < 10 THEN <<DigitChars[n + 1]>>
    ELSE ToDigits(n \div 10) \o <<DigitChars[(n % 10) + 1]>>

RECURSIVE PadDigits(_, _)
PadDigits(n, k) ==
    IF k = 0 THEN <<>>
    ELSE PadDigits(n \div 10, k - 1) \o <<DigitChars[(n % 10) + 1]>>

\* the text of a number v >= 0 with k digits after the point
ToFixed(v, k) ==
    LET scaled == v.m * Pow10(k - v.d)
    IN  ToDigits(scaled \div Pow10(k)) \o <<".">> \o PadDigits(scaled % Pow10(k), k)

FractionDigits(s) == Len(s) - (CHOOSE p \in 1..Len(s) : s[p] = ".")

\* v is the number that the well-formed text s denotes
Denotes(v, s) ==
    /\ v.t = "number"
    /\ v.m >= 0
    /\ v.d <= FractionDigits(s)
    /\ ToFixed(v, FractionDigits(s)) = s

\* a persisted row, which holds every column but perhaps actualHours, has
\* been given to the response schema
Responded ==
    /\ pc = "done" /\ schema = "taskResponseSchema"
    /\ Fields \ {"actualHours"} \subseteq DOMAIN payload
    /\ payload["estimatedHours"].t = "string"

EstimatedText == payload["estimatedHours"].s

ActualIsText == Supplied("actualHours") /\ payload["actualHours"].t = "string"

ActualIsNull == Supplied("actualHours") /\ payload["actualHours"] = Null

\* C7 as stated: a row with well-formed hour texts is converted to the numbers
\* they denote; a null or absent actualHours becomes null.
C7_RowConverted ==
    /\ Responded
    /\ WellFormedOneDecimal(EstimatedText)
    /\ \/ ~Supplied("actualHours")
       \/ ActualIsNull
       \/ ActualIsText /\ WellFormedDecimal(payload["actualHours"].s)
    => /\ result.ok
       /\ Denotes(result.data["estimatedHours"], EstimatedText)
       /\ IF ActualIsText
          THEN Denotes(result.data["actualHours"], payload["actualHours"].s)
          ELSE result.data["actualHours"] = Null

\* C7 as amended: the same for a text or null actualHours; a row without the
\* key actualHours is rejected, with an issue on actualHours.
C7_RowConvertedUnlessAbsent ==
    Responded /\ WellFormedOneDecimal(EstimatedText) =>
        /\ ActualIsNull =>
             /\ result.ok
             /\ Denotes(result.data["estimatedHours"], EstimatedText)
             /\ result.data["actualHours"] = Null
        /\ ActualIsText /\ WellFormedDecimal(payload["actualHours"].s) =>
             /\ result.ok
             /\ Denotes(result.data["estimatedHours"], EstimatedText)
             /\ Denotes(result.data["actualHours"], payload["actualHours"].s)
        /\ ~Supplied("actualHours") =>
             /\ ~result.ok
             /\ IssuePaths = {"actualHours"}

C7_Witness ==
    /\ Responded /\ result.ok
    /\ EstimatedText = <<"2", ".", "5">>
    /\ ActualIsNull
    /\ result.data["estimatedHours"] = Num(25, 1)
    /\ result.data["actualHours"] = Null

\* C8 as stated: the response schema applied to its own output, whose hours
\* are numbers already, succeeds and returns the same hours.
C8_Idempotent ==
    /\ pc = "reapplied"
    /\ prev.data["estimatedHours"].t = "number"
    /\ prev.data["actualHours"].t \in {"number", "null"}
    =>
        /\ result.ok
        /\ result.data["estimatedHours"] = prev.data["estimatedHours"]
        /\ result.data["actualHours"] = prev.data["actualHours"]

\* C8 as amended: the response schema applied to its own output always fails,
\* with an invalid-type issue on estimatedHours, which is no longer text, and
\* one on actualHours unless that is null.
C8_ReapplyRejected ==
    pc = "reapplied" =>
        /\ ~result.ok
        /\ [path |-> "estimatedHours", code |-> "invalid_type"] \in result.issues
        /\ ("actualHours" \in IssuePaths <=> prev.data["actualHours"] # Null)
        /\ IssuePaths \subseteq {"estimatedHours", "actualHours"}

C8_Witness ==
    /\ pc = "reapplied"
    /\ prev.ok
    /\ prev.data["estimatedHours"] = Num(25, 1)
    /\ prev.data["actualHours"] = Null
    /\ payload = prev.data
    /\ ~result.ok

\* C9 as stated: a row whose estimatedHours or actualHours is text that is not
\* a well-formed number is rejected.
C9_FailsClosed ==
    /\ Responded
    /\ \/ ~IsDecimalText(EstimatedText)
       \/ ActualIsText /\ ~IsDecimalText(payload["actualHours"].s)
    => ~result.ok

====
